---- MODULE Spec2Model ----
(***************************************************************************)
(* GapSight: the pain-point pipeline of src/youtube/video.py               *)
(* (PainPointAnalyzer): extraction of keyword mentions from comments,      *)
(* grouping, severity scoring and ranking.                                 *)
(*                                                                         *)
(* Strings are sequences of characters.  A character is a one-character    *)
(* TLA+ string for ASCII and "uXXXX" (its code point) for the Chinese      *)
(* characters of the built-in taxonomy.  Floats are modelled as exact      *)
(* rationals <<numerator, denominator>> in lowest terms.  A Comment is     *)
(* modelled by its text: author, likes, timestamp and reply_count are      *)
(* never read by the analyzer's output.                                    *)
(***************************************************************************)
EXTENDS Integers, Sequences, FiniteSets

VARIABLES
  pain_keywords,     \* self.pain_keywords: ordered dict category -> keyword list
  severity_weights,  \* self.severity_weights: dict category -> weight
  comments,          \* the argument of analyze_pain_points: sequence of texts
  pc,                \* position inside analyze_pain_points
  pain_mentions,     \* local list of mentions
  category_counts,   \* local Counter: category -> number of mentions
  grouped,           \* grouped_pains: ordered dict key -> {count, category, comments}
  pain_points,       \* local list of pain points; the return value once pc = "done"
  extracted,         \* history: the return value of each _extract_pain_points_from_comment call
  severity_calls     \* history: arguments of every _calculate_severity call

vars == <<pain_keywords, severity_weights, comments, pc, pain_mentions,
          category_counts, grouped, pain_points, extracted, severity_calls>>

----------------------------------------------------------------------------
(* Bounds of the model *)

\* longest comment sequence of Spec and SpecTaxonomy
MaxComments == 4
\* longest comment sequence of SpecLong
MaxLong == 6

----------------------------------------------------------------------------
(* Exact rationals standing for Python floats *)

RECURSIVE GCD(_, _)
GCD(a, b) == IF b = 0 THEN a ELSE GCD(b, a % b)

Rat(n, d) == LET g == GCD(n, d) IN <<n \div g, d \div g>>
RatMul(x, y) == Rat(x[1] * y[1], x[2] * y[2])
RatAdd(x, y) == Rat(x[1] * y[2] + y[1] * x[2], x[2] * y[2])
RatLess(x, y) == x[1] * y[2] < y[1] * x[2]
RatMin(x, y) == IF RatLess(y, x) THEN y ELSE x
Tenths(n) == Rat(n, 10)
One == Rat(1, 1)

----------------------------------------------------------------------------
(* Python str operations *)

\* str.lower() on the characters that occur in the model
LowerChar(c) ==
  CASE c = "A" -> "a"
    [] c = "B" -> "b"
    [] c = "C" -> "c"
    [] OTHER -> c

Lower(s) == [i \in 1..Len(s) |-> LowerChar(s[i])]

\* sub in s
Contains(sub, s) ==
  \E i \in 0..(Len(s) - Len(sub)) : \A k \in 1..Len(sub) : s[i + k] = sub[k]

----------------------------------------------------------------------------
(* The taxonomy installed by PainPointAnalyzer.__init__ *)

ContentQuality == <<"u5185", "u5bb9", "u8d28", "u91cf">>
TeachingPace == <<"u6559", "u5b66", "u8282", "u594f">>
UserExperience == <<"u7528", "u6237", "u4f53", "u9a8c">>
TechnicalIssue == <<"u6280", "u672f", "u95ee", "u9898">>
FeatureRequest == <<"u529f", "u80fd", "u9700", "u6c42">>
LearningEffect == <<"u5b66", "u4e60", "u6548", "u679c">>
NegativeEmotion == <<"u8d1f", "u9762", "u60c5", "u7eea">>

BuiltinKeywords ==
  << <<ContentQuality, <<<<"u4e0d", "u6e05", "u6670">>,
                <<"u4e0d", "u5b8c", "u6574">>,
                <<"u592a", "u7b80", "u5355">>,
                <<"u592a", "u590d", "u6742">>,
                <<"u4e0d", "u6df1", "u5165">>,
                <<"u4e0d", "u8be6", "u7ec6">>,
                <<"u9519", "u8bef">>,
                <<"u4e0d", "u51c6", "u786e">>,
                <<"u8df3", "u8fc7">>,
                <<"u7f3a", "u5c11">>,
                <<"u9057", "u6f0f">>,
                <<"u4e0d", "u591f">>,
                <<"u9700", "u8981", "u66f4", "u591a">>,
                <<"u4e0d", "u5168", "u9762">>>> >>,
       <<TeachingPace, <<<<"u592a", "u5feb">>,
                <<"u592a", "u6162">>,
                <<"u8ddf", "u4e0d", "u4e0a">>,
                <<"u8282", "u594f">>,
                <<"u901f", "u5ea6">>,
                <<"u65f6", "u95f4">>>> >>,
       <<UserExperience, <<<<"u5e7f", "u544a">>,
                <<"u5361", "u987f">>,
                <<"u753b", "u8d28">>,
                <<"u97f3", "u8d28">>,
                <<"u5b57", "u5e55">>,
                <<"u7ffb", "u8bd1">>,
                <<"u754c", "u9762">>>> >>,
       <<TechnicalIssue, <<<<"u52a0", "u8f7d">>,
                <<"u64ad", "u653e">>,
                <<"u5361">>,
                <<"u9ed1", "u5c4f">>,
                <<"u58f0", "u97f3">>,
                <<"u753b", "u9762">>>> >>,
       <<FeatureRequest, <<<<"u9700", "u8981">>,
                <<"u5e0c", "u671b">>,
                <<"u5e94", "u8be5">>,
                <<"u8981", "u662f", "u80fd">>,
                <<"u5982", "u679c", "u6709">>,
                <<"u7f3a", "u5c11", "u529f", "u80fd">>,
                <<"u589e", "u52a0">>>> >>,
       <<LearningEffect, <<<<"u5b66", "u4e0d", "u4f1a">>,
                <<"u4e0d", "u7406", "u89e3">>,
                <<"u8bb0", "u4e0d", "u4f4f">>,
                <<"u592a", "u96be">>,
                <<"u592a", "u57fa", "u7840">>,
                <<"u65e0", "u804a">>,
                <<"u6ca1", "u5e2e", "u52a9">>>> >>,
       <<NegativeEmotion, <<<<"u6cae", "u4e27">>,
                <<"u56f0", "u60d1">>,
                <<"u5931", "u671b">>,
                <<"u8ba8", "u538c">>,
                <<"u70e6">>,
                <<"u751f", "u6c14">>,
                <<"u4e0d", "u6ee1", "u610f">>>> >> >>

BuiltinWeights ==
  << <<NegativeEmotion, Tenths(10)>>,
     <<TechnicalIssue, Tenths(9)>>,
     <<ContentQuality, Tenths(8)>>,
     <<LearningEffect, Tenths(7)>>,
     <<UserExperience, Tenths(6)>>,
     <<FeatureRequest, Tenths(5)>>,
     <<TeachingPace, Tenths(4)>> >>

----------------------------------------------------------------------------
(* Inputs: comment texts and caller-configured taxonomies *)

\* comment texts over the built-in keywords:
\*   tai-kuai (too fast) | gen-bu-shang tai-kuai (cannot keep up, too fast)
\*   tai-man (too slow)  | ka-dun (stutter; "ka" is also a keyword)
\*   xu-yao-geng-duo (need more; "xu-yao" is also a keyword)
\*   hao (good: no keyword) | shi-wang (disappointed)
SampleTexts ==
  { <<"u592a", "u5feb">>,
    <<"u8ddf", "u4e0d", "u4e0a", "u592a", "u5feb">>,
    <<"u592a", "u6162">>,
    <<"u5361", "u987f">>,
    <<"u9700", "u8981", "u66f4", "u591a">>,
    <<"u597d">>,
    <<"u5931", "u671b">> }

\* a taxonomy whose declared keyword order differs from text order; q has no weight
TaxOrder ==
  [ keywords |-> << << <<"p">>, << <<"b">>, <<"a">> >> >>,
                    << <<"q">>, << <<"c">>, <<"a">> >> >> >>,
    weights  |-> << << <<"p">>, Tenths(4) >> >>,
    texts    |-> { <<>>, <<"a">>, <<"a", "b">>, <<"c">>, <<"B">>, <<"c", "b">> } ]

\* a taxonomy with upper-case keywords
TaxUpper ==
  [ keywords |-> << << <<"p">>, << <<"A">>, <<"b">> >> >>,
                    << <<"q">>, << <<"B">> >> >> >>,
    weights  |-> << << <<"p">>, Tenths(10) >>, << <<"q">>, Tenths(7) >> >>,
    texts    |-> { <<"A">>, <<"a">>, <<"A", "b">>, <<"b">>, <<"c">> } ]

\* a taxonomy whose names and keywords hold the separator ": "
TaxColon ==
  [ keywords |-> << << <<"a">>, << <<"b", ":", " ", "c">> >> >>,
                    << <<"a", ":", " ", "b">>, << <<"c">> >> >> >>,
    weights  |-> << << <<"a">>, Tenths(1) >>,
                    << <<"a", ":", " ", "b">>, Tenths(10) >> >>,
    texts    |-> { <<"b", ":", " ", "c">>, <<"c">>, <<"b">>, <<"C", "c">> } ]

Taxonomies == {TaxOrder, TaxUpper, TaxColon}

\* a taxonomy with six distinct texts that all match the keyword "a"
TaxLong ==
  [ keywords |-> << << <<"p">>, << <<"a">>, <<"b">> >> >>,
                    << <<"q">>, << <<"c">> >> >> >>,
    weights  |-> << << <<"p">>, Tenths(2) >>, << <<"q">>, Tenths(6) >> >>,
    texts    |-> { <<"a">>, <<"a", "b">>, <<"b", "a">>, <<"A">>,
                   <<"a", "c">>, <<"a", "a">> } ]

SeqsUpTo(S, n) == UNION {[1..k -> S] : k \in 0..n}

----------------------------------------------------------------------------
(* PainPointAnalyzer *)

Mention(category, keyword, comment) ==
  [category |-> category, keyword |-> keyword, comment |-> comment]

\* the for-keyword loop of _extract_pain_points_from_comment, from keyword j on
RECURSIVE ScanKeywords(_, _, _, _, _)
ScanKeywords(category, keywords, comment, text, j) ==
  IF j > Len(keywords) THEN <<>>
  ELSE IF Contains(keywords[j], text)
       THEN <<Mention(category, keywords[j], comment)>>
       ELSE ScanKeywords(category, keywords, comment, text, j + 1)

\* faulty variant: the loop without its break appends every matching keyword
RECURSIVE ScanKeywordsNoBreak(_, _, _, _, _)
ScanKeywordsNoBreak(category, keywords, comment, text, j) ==
  IF j > Len(keywords) THEN <<>>
  ELSE (IF Contains(keywords[j], text)
        THEN <<Mention(category, keywords[j], comment)>>
        ELSE <<>>)
       \o ScanKeywordsNoBreak(category, keywords, comment, text, j + 1)

MentionsOfCategoryNoBreak(category, keywords, comment, text) ==
  ScanKeywordsNoBreak(category, keywords, comment, text, 1)

\* faulty variant: the loop without its break keeps the last matching keyword
MentionsOfCategoryLast(category, keywords, comment, text) ==
  LET all == ScanKeywordsNoBreak(category, keywords, comment, text, 1)
  IN IF all = <<>> THEN <<>> ELSE <<all[Len(all)]>>

MentionsOfCategory(category, keywords, comment, text) ==
  ScanKeywords(category, keywords, comment, text, 1)

\* the for-category loop, from category i on
RECURSIVE ScanCategories(_, _, _)
ScanCategories(comment, text, i) ==
  IF i > Len(pain_keywords) THEN <<>>
  ELSE MentionsOfCategory(pain_keywords[i][1], pain_keywords[i][2], comment, text)
         \o ScanCategories(comment, text, i + 1)

_extract_pain_points_from_comment(comment) ==
  LET text == Lower(comment) IN ScanCategories(comment, text, 1)

\* f"{mention['category']}: {mention['keyword']}"
GroupKey(mention) == mention.category \o <<":", " ">> \o mention.keyword

KeyIndex(g, key) ==
  IF \E i \in 1..Len(g) : g[i].key = key
  THEN CHOOSE i \in 1..Len(g) : g[i].key = key
  ELSE 0

InSeq(x, s) == \E i \in 1..Len(s) : s[i] = x

\* faulty variant: count only the mentions whose comment text is new to the group
AddMentionCountNew(g, mention) ==
  LET key == GroupKey(mention)
      g1  == IF KeyIndex(g, key) = 0
             THEN Append(g, [key |-> key, count |-> 0,
                             category |-> mention.category, comments |-> <<>>])
             ELSE g
      k   == KeyIndex(g1, key)
      e   == g1[k]
  IN IF InSeq(mention.comment, e.comments) THEN g1
     ELSE [g1 EXCEPT ![k] = [e EXCEPT !.count = e.count + 1,
                                      !.comments = Append(e.comments, mention.comment)]]

\* faulty variant: append the comment text without the membership test
AddMentionRepeat(g, mention) ==
  LET key == GroupKey(mention)
      g1  == IF KeyIndex(g, key) = 0
             THEN Append(g, [key |-> key, count |-> 0,
                             category |-> mention.category, comments |-> <<>>])
             ELSE g
      k   == KeyIndex(g1, key)
      e   == g1[k]
  IN [g1 EXCEPT ![k] = [e EXCEPT !.count = e.count + 1,
                                 !.comments = Append(e.comments, mention.comment)]]

\* one iteration of the loop of _group_similar_pains
AddMention(g, mention) ==
  LET key == GroupKey(mention)
      g1  == IF KeyIndex(g, key) = 0
             THEN Append(g, [key |-> key, count |-> 0,
                             category |-> mention.category, comments |-> <<>>])
             ELSE g
      k   == KeyIndex(g1, key)
      e   == g1[k]
  IN [g1 EXCEPT ![k] =
        [e EXCEPT !.count = e.count + 1,
                  !.comments = IF InSeq(mention.comment, e.comments)
                               THEN e.comments
                               ELSE Append(e.comments, mention.comment)]]

RECURSIVE GroupFrom(_, _)
GroupFrom(g, mentions) ==
  IF mentions = <<>> THEN g
  ELSE GroupFrom(AddMention(g, Head(mentions)), Tail(mentions))

\* faulty variant: the dict starts with one zero-count group per taxonomy category
_group_similar_pains_seeded(mentions) ==
  GroupFrom([i \in 1..Len(pain_keywords) |->
               [key |-> pain_keywords[i][1], count |-> 0,
                category |-> pain_keywords[i][1], comments |-> <<>>]],
            mentions)

_group_similar_pains(mentions) == GroupFrom(<<>>, mentions)

\* self.severity_weights.get(category, 0.5)
WeightOf(category) ==
  IF \E i \in 1..Len(severity_weights) : severity_weights[i][1] = category
  THEN severity_weights[CHOOSE i \in 1..Len(severity_weights) :
                          severity_weights[i][1] = category][2]
  ELSE Rat(1, 2)

\* faulty variant: the result is not clamped
_calculate_severity_unclamped(category, count, total_comments) ==
  LET base_severity == WeightOf(category)
      frequency     == Rat(count, total_comments)
  IN RatMul(base_severity, RatAdd(One, RatMul(frequency, Rat(2, 1))))

\* faulty variant: count // total_comments, floor division
_calculate_severity_floordiv(category, count, total_comments) ==
  LET base_severity == WeightOf(category)
      frequency     == Rat(count \div total_comments, 1)
      severity      == RatMul(base_severity, RatAdd(One, RatMul(frequency, Rat(2, 1))))
  IN RatMin(severity, One)

_calculate_severity(category, count, total_comments) ==
  LET base_severity == WeightOf(category)
      frequency     == Rat(count, total_comments)
      severity      == RatMul(base_severity, RatAdd(One, RatMul(frequency, Rat(2, 1))))
  IN RatMin(severity, One)

\* data['comments'][:5]
MaxRelated == 5
Truncate(s) == SubSeq(s, 1, IF Len(s) < MaxRelated THEN Len(s) ELSE MaxRelated)

PainPoint(data, total) ==
  [description      |-> data.key,
   frequency        |-> data.count,
   severity         |-> _calculate_severity(data.category, data.count, total),
   related_comments |-> Truncate(data.comments),
   category         |-> data.category]

\* faulty variant: an unstable descending sort, equal severities end up reversed
RECURSIVE InsertDescUnstable(_, _)
InsertDescUnstable(sorted, p) ==
  IF sorted = <<>> THEN <<p>>
  ELSE IF ~RatLess(p.severity, Head(sorted).severity)
       THEN <<p>> \o sorted
       ELSE <<Head(sorted)>> \o InsertDescUnstable(Tail(sorted), p)

\* list.sort(key=severity, reverse=True): stable, descending
RECURSIVE InsertDesc(_, _)
InsertDesc(sorted, p) ==
  IF sorted = <<>> THEN <<p>>
  ELSE IF RatLess(Head(sorted).severity, p.severity)
       THEN <<p>> \o sorted
       ELSE <<Head(sorted)>> \o InsertDesc(Tail(sorted), p)

RECURSIVE SortFrom(_, _)
SortFrom(sorted, rest) ==
  IF rest = <<>> THEN sorted
  ELSE SortFrom(InsertDesc(sorted, Head(rest)), Tail(rest))

SortBySeverity(points) == SortFrom(<<>>, points)

RECURSIVE Flatten(_)
Flatten(ss) == IF ss = <<>> THEN <<>> ELSE Head(ss) \o Flatten(Tail(ss))

CountCategory(mentions, category) ==
  Cardinality({i \in 1..Len(mentions) : mentions[i].category = category})

----------------------------------------------------------------------------
(* analyze_pain_points, one action per stage *)

InitWith(keywords, weights, texts, maxlen) ==
  /\ pain_keywords = keywords
  /\ severity_weights = weights
  /\ comments \in SeqsUpTo(texts, maxlen)
  /\ pc = "collect"
  /\ pain_mentions = <<>>
  /\ extracted = <<>>
  /\ category_counts = <<>>
  /\ grouped = <<>>
  /\ pain_points = <<>>
  /\ severity_calls = <<>>

\* a fresh analyzer called on sample-like comments
Init == InitWith(BuiltinKeywords, BuiltinWeights, SampleTexts, MaxComments)

\* an analyzer whose taxonomy the caller configured
InitTaxonomy ==
  \E t \in Taxonomies : InitWith(t.keywords, t.weights, t.texts, MaxComments)

\* many comments that match one keyword
InitLong == InitWith(TaxLong.keywords, TaxLong.weights, TaxLong.texts, MaxLong)

\* lines 229-235: extract every comment, extend pain_mentions, count categories
Collect ==
  /\ pc = "collect"
  /\ extracted' = [i \in 1..Len(comments) |->
                     _extract_pain_points_from_comment(comments[i])]
  /\ pain_mentions' = Flatten(extracted')
  /\ category_counts' =
       [c \in {pain_mentions'[i].category : i \in 1..Len(pain_mentions')} |->
          CountCategory(pain_mentions', c)]
  /\ pc' = "group"
  /\ UNCHANGED <<pain_keywords, severity_weights, comments, grouped,
                 pain_points, severity_calls>>

\* line 238
Group ==
  /\ pc = "group"
  /\ grouped' = _group_similar_pains(pain_mentions)
  /\ pc' = "score"
  /\ UNCHANGED <<pain_keywords, severity_weights, comments, pain_mentions,
                 extracted, category_counts, pain_points, severity_calls>>

\* lines 241-249; a call with total_comments = 0 raises ZeroDivisionError
Score ==
  /\ pc = "score"
  /\ severity_calls' = [i \in 1..Len(grouped) |->
                          <<grouped[i].category, grouped[i].count, Len(comments)>>]
  /\ IF grouped # <<>> /\ Len(comments) = 0
     THEN /\ pc' = "ZeroDivisionError"
          /\ pain_points' = <<>>
     ELSE /\ pc' = "rank"
          /\ pain_points' = [i \in 1..Len(grouped) |->
                               PainPoint(grouped[i], Len(comments))]
  /\ UNCHANGED <<pain_keywords, severity_weights, comments, pain_mentions,
                 extracted, category_counts, grouped>>

\* lines 252-254
Rank ==
  /\ pc = "rank"
  /\ pain_points' = SortBySeverity(pain_points)
  /\ pc' = "done"
  /\ UNCHANGED <<pain_keywords, severity_weights, comments, pain_mentions,
                 extracted, category_counts, grouped, severity_calls>>

Next == Collect \/ Group \/ Score \/ Rank

Spec == Init /\ [][Next]_vars
SpecTaxonomy == InitTaxonomy /\ [][Next]_vars
SpecLong == InitLong /\ [][Next]_vars

----------------------------------------------------------------------------
(* Properties *)

Min(S) == CHOOSE x \in S : \A y \in S : x <= y

\* index of a category in the declared order of the taxonomy
CategoryIndex(category) ==
  CHOOSE c \in 1..Len(pain_keywords) : pain_keywords[c][1] = category

\* the declared indices of the keywords found in the lower-cased text
Occurring(keywords, text) ==
  {j \in 1..Len(keywords) : Contains(keywords[j], Lower(text))}

\* first position at which sub starts in s
Position(sub, s) ==
  Min({i \in 0..(Len(s) - Len(sub)) : SubSeq(s, i + 1, i + Len(sub)) = sub})

\* C1: no list returned by _extract_pain_points_from_comment holds two
\* mentions of the same category.
C1_OneMentionPerCategory ==
  \A i \in 1..Len(extracted) :
    \A a, b \in 1..Len(extracted[i]) :
      a # b => extracted[i][a].category # extracted[i][b].category

\* a comment in which two keywords of one category occur and which got its
\* mention of that category
C1_Witness ==
  \E i \in 1..Len(extracted) : \E c \in 1..Len(pain_keywords) :
    /\ Cardinality(Occurring(pain_keywords[c][2], comments[i])) >= 2
    /\ \E a \in 1..Len(extracted[i]) :
         extracted[i][a].category = pain_keywords[c][1]

C3_CaseInsensitiveMatch ==
  \A i \in 1..Len(extracted) : \A c \in 1..Len(pain_keywords) :
    (\E a \in 1..Len(extracted[i]) :
       extracted[i][a].category = pain_keywords[c][1])
    <=>
    (\E j \in 1..Len(pain_keywords[c][2]) :
       Contains(Lower(pain_keywords[c][2][j]), Lower(comments[i])))

\* C4: the result holds exactly one pain point per distinct (category,
\* keyword) pair mentioned, and the category of a pain point is the category
\* of every mention counted in it.
C4_OnePainPointPerPair ==
  pc = "done" =>
    /\ Len(pain_points) =
         Cardinality({<<pain_mentions[i].category, pain_mentions[i].keyword>> :
                        i \in 1..Len(pain_mentions)})
    /\ \A k \in 1..Len(pain_points) : \A i \in 1..Len(pain_mentions) :
         GroupKey(pain_mentions[i]) = pain_points[k].description
           => pain_mentions[i].category = pain_points[k].category

\* C5: every pain point has 0 <= severity <= 1.
C5_SeverityInUnitInterval ==
  \A k \in 1..Len(pain_points) :
    LET s == pain_points[k].severity
    IN s[2] > 0 /\ 0 <= s[1] /\ s[1] <= s[2]

\* the result holds a pain point whose unclamped score exceeds 1 and one
\* whose score is below 1
C5_Witness ==
  /\ pc = "done"
  /\ \E k \in 1..Len(pain_points) :
       LET p == pain_points[k]
           w == WeightOf(p.category)
       IN w[1] * (Len(comments) + 2 * p.frequency) > w[2] * Len(comments)
  /\ \E k \in 1..Len(pain_points) :
       pain_points[k].severity[1] < pain_points[k].severity[2]

\* the comment texts of the mentions of the group with this key, in order
GroupTexts(key) ==
  LET idx == {i \in 1..Len(pain_mentions) : GroupKey(pain_mentions[i]) = key}
      nth(n) == CHOOSE i \in idx : Cardinality({j \in idx : j < i}) = n - 1
  IN [n \in 1..Cardinality(idx) |-> pain_mentions[nth(n)].comment]

\* the first occurrences of the elements of s, in order
Distinct(s) ==
  LET idx == {i \in 1..Len(s) : \A j \in 1..(i - 1) : s[j] # s[i]}
      nth(n) == CHOOSE i \in idx : Cardinality({j \in idx : j < i}) = n - 1
  IN [n \in 1..Cardinality(idx) |-> s[nth(n)]]

\* C6: related_comments of every returned pain point is the sequence of
\* distinct comment texts of the mentions of its group, in first-encountered
\* order, cut to the first 5; so it has at most 5 elements and no repeat.
C6_RelatedComments ==
  pc = "done" =>
    \A k \in 1..Len(pain_points) :
      LET rc == pain_points[k].related_comments
          d  == Distinct(GroupTexts(pain_points[k].description))
      IN /\ Len(rc) <= 5
         /\ \A a, b \in 1..Len(rc) : a # b => rc[a] # rc[b]
         /\ Len(rc) = (IF Len(d) < 5 THEN Len(d) ELSE 5)
         /\ \A a \in 1..Len(rc) : rc[a] = d[a]

\* a returned pain point whose group has six distinct texts, cut to five
C6_Witness ==
  /\ pc = "done"
  /\ \E k \in 1..Len(pain_points) :
       /\ Len(Distinct(GroupTexts(pain_points[k].description))) = 6
       /\ Len(pain_points[k].related_comments) = 5

\* a returned pain point whose group saw a text twice
C6_WitnessRepeat ==
  /\ pc = "done"
  /\ \E k \in 1..Len(pain_points) :
       Len(pain_points[k].related_comments) < pain_points[k].frequency

\* position of a grouping key in grouping-encounter order
Encounter(key) == CHOOSE i \in 1..Len(grouped) : grouped[i].key = key

\* C7: the result is the stable descending sort by severity of the pain
\* points in grouping-encounter order: the same pain points, severities
\* non-increasing, equal severities in encounter order.
C7_StableDescending ==
  pc = "done" =>
    /\ Len(pain_points) = Len(grouped)
    /\ \A i \in 1..Len(grouped) : \E k \in 1..Len(pain_points) :
         /\ pain_points[k].description = grouped[i].key
         /\ pain_points[k] = PainPoint(grouped[i], Len(comments))
    /\ \A a, b \in 1..Len(pain_points) :
         a < b =>
           /\ ~RatLess(pain_points[a].severity, pain_points[b].severity)
           /\ pain_points[a].severity = pain_points[b].severity
                => Encounter(pain_points[a].description)
                     < Encounter(pain_points[b].description)

\* a result that the sort reordered and that holds two pain points of equal
\* severity below 1
C7_Witness ==
  /\ pc = "done"
  /\ \E k \in 1..Len(pain_points) : pain_points[k].description # grouped[k].key
  /\ \E a, b \in 1..Len(pain_points) :
       /\ a < b
       /\ pain_points[a].severity = pain_points[b].severity
       /\ pain_points[a].severity # One

\* C8: on an empty comment sequence the result is empty and
\* _calculate_severity is never called; every call of it has
\* total_comments > 0, so the division never fails.
C8_NoScoringWithoutComments ==
  /\ pc # "ZeroDivisionError"
  /\ \A i \in 1..Len(severity_calls) : severity_calls[i][3] > 0
  /\ comments = <<>> => pain_points = <<>> /\ severity_calls = <<>>

\* the analysis of an empty comment sequence has returned
C8_Witness == pc = "done" /\ comments = <<>> /\ pain_points = <<>>

\* the analysis of a non-empty sequence has called _calculate_severity
C8_WitnessCalls == pc = "done" /\ severity_calls # <<>>

RECURSIVE SumFrequency(_, _)
SumFrequency(points, category) ==
  IF points = <<>> THEN 0
  ELSE (IF Head(points).category = category THEN Head(points).frequency ELSE 0)
       + SumFrequency(Tail(points), category)

\* C9: the frequency of a returned pain point is the number of comments whose
\* mention of the pain point's category records the pain point's keyword; it
\* is positive; and the frequencies of the pain points of one category add up
\* to the number of comments that have a mention of that category.
C9_Frequency ==
  pc = "done" =>
    /\ \A k \in 1..Len(pain_points) :
         LET p == pain_points[k] IN
         /\ p.frequency >= 1
         /\ p.frequency =
              Cardinality({i \in 1..Len(comments) :
                \E a \in 1..Len(extracted[i]) :
                  /\ extracted[i][a].category = p.category
                  /\ p.description =
                       p.category \o <<":", " ">> \o extracted[i][a].keyword})
    /\ \A c \in 1..Len(pain_keywords) :
         SumFrequency(pain_points, pain_keywords[c][1]) =
           Cardinality({i \in 1..Len(comments) :
             \E a \in 1..Len(extracted[i]) :
               extracted[i][a].category = pain_keywords[c][1]})

\* a result with two pain points of one category, one of them counting a
\* comment text more than once
C9_Witness ==
  /\ pc = "done"
  /\ \E k, l \in 1..Len(pain_points) :
       /\ k # l
       /\ pain_points[k].category = pain_points[l].category
       /\ pain_points[k].frequency > Len(pain_points[k].related_comments)

\* the configured weight of a category, 1/2 when it has none
ConfiguredWeight(category) ==
  LET idx == {i \in 1..Len(severity_weights) : severity_weights[i][1] = category}
  IN IF idx = {} THEN <<1, 2>> ELSE severity_weights[Min(idx)][2]

====
